---- MODULE Spec2Model ----
(***************************************************************************)
(* LinkedIn AI auto-poster: main and the workflow of main.py (fetch ->     *)
(* curate -> write -> verify/rewrite loop -> post), the report parse of    *)
(* step_4_verify_post, and the tools of src/tools (feeds, news API,        *)
(* article fetcher, LinkedIn client); the publishing endpoints of          *)
(* agent_builder/tools_server.py; run_assistant of deploy_openai.py.       *)
(*                                                                         *)
(* Text is a sequence of atoms (short character chunks); the string        *)
(* operations of the code (lower, replace, count, in) are defined on that  *)
(* sequence the way Python defines them on characters.                     *)
(***************************************************************************)
EXTENDS Integers, Sequences, FiniteSets, TLC

VARIABLES
    pc,                   \* position of run_workflow
    dry_run,              \* argument of run_workflow
    skip_verification,    \* argument of run_workflow
    confidence_threshold, \* argument of run_workflow
    step1_articles,       \* all_articles of step_1_fetch_news
    articles_text,        \* result of step_1_fetch_news
    all_articles,         \* list re-fetched at main.py:321-323
    curated,              \* result of step_2_curate_news
    enhanced_content,     \* result of step_2b_fetch_full_articles
    draft_post,           \* current draft
    current_verification, \* verdict the loop tests
    retry_count,          \* loop counter
    results,              \* the dict run_workflow returns
    drafts_dir,           \* files written under drafts/
    calls,                \* number of calls made to each collaborator
    last_call,            \* arguments and result of the latest step call
    verified_draft,       \* draft the latest verification examined
    env,                  \* environment variables main reads
    exit_code,            \* exit status of the process, -1 while it runs
    logs_dir,             \* files written under logs/
    t_fn,                 \* tool called (tool runs)
    t_in,                 \* its arguments and what the network answers
    t_out,                \* what it returned (tool runs)
    p_src,                \* report the verifier produced (parser runs)
    p_verdict,            \* verdict parsed from it (parser runs)
    p_claims,             \* the counts printed at main.py:207 (parser runs)
    srv_pc,               \* position of the request handler (tools server)
    srv_env,              \* environment variables the tools server reads
    srv_endpoint,         \* route of the request
    srv_data,             \* request.json
    srv_content,          \* content / post_content of the handler
    srv_validation,       \* validation of the handler
    srv_response,         \* what the handler returned
    srv_calls,            \* calls the handler made to the LinkedIn client
    asst_pc,              \* position of deploy_openai.py
    asst_args,            \* the flag given to deploy_openai.py
    asst_env,             \* environment variables deploy_openai.py reads
    auto_post,            \* argument of run_assistant
    user_message,         \* the message run_assistant starts the thread with
    run,                  \* the run object of the polling loop
    tool_outputs,         \* tool_outputs of the polling loop
    asst_calls,           \* calls run_assistant made
    asst_result           \* how run_assistant ended

wf_vars == <<pc, dry_run, skip_verification, confidence_threshold,
             step1_articles, articles_text, all_articles, curated,
             enhanced_content, draft_post, current_verification,
             retry_count, results, drafts_dir, calls, last_call,
             verified_draft>>
arg_vars == <<last_call, verified_draft>>
m_vars == <<env, exit_code, logs_dir>>
t_vars == <<t_fn, t_in, t_out>>
p_vars == <<p_src, p_verdict, p_claims>>
srv_vars == <<srv_pc, srv_env, srv_endpoint, srv_data, srv_content,
              srv_validation, srv_response, srv_calls>>
asst_vars == <<asst_pc, asst_args, asst_env, auto_post, user_message, run,
               tool_outputs, asst_calls, asst_result>>
ep_vars == <<srv_vars, asst_vars>>
lib_vars == <<t_vars, p_vars, ep_vars>>
main_vars == <<wf_vars, m_vars, t_vars, p_vars>>
vars == <<wf_vars, m_vars, t_vars, p_vars, ep_vars>>

----------------------------------------------------------------------------
(* Bounds *)

MaxClaims == 3      \* claim markers in a report of the parser runs
MaxText == 2        \* distinct texts the generative calls can return
MaxItems == 2       \* items published on all news sources together
MaxPolls == 3       \* polls of the remote run in one run of the assistant
MaxToolCalls == 2   \* tool calls the remote run requests at once
MaxUrls == 2        \* URLs handed to fetch_multiple_articles

\* Python's None, and a value that is present
None == <<>>
Some(x) == <<x>>

----------------------------------------------------------------------------
(* Strings *)

\* str.lower(), atom by atom
LowerAtom(a) ==
    CASE a = "Overall " -> "overall "
      [] a = "Status:" -> "status:"
      [] a = "VERIFIED" -> "verified"
      [] a = "UN" -> "un"
      [] a = "PASSED" -> "passed"
      [] a = "FAILED" -> "failed"
      [] a = "Recommendation:" -> "recommendation:"
      [] a = "RECOMMENDATION:" -> "recommendation:"
      [] a = "PUBLISH" -> "publish"
      [] a = "REVISE" -> "revise"
      [] a = "Claim" -> "claim"
      [] OTHER -> a

str_lower(s) == [i \in DOMAIN s |-> LowerAtom(s[i])]

StartsWith(s, sub) ==
    /\ Len(sub) <= Len(s)
    /\ SubSeq(s, 1, Len(sub)) = sub

\* sub in s
str_in(sub, s) ==
    \E i \in 0..(Len(s) - Len(sub)) : SubSeq(s, i + 1, i + Len(sub)) = sub

\* s.count(sub): non-overlapping occurrences, scanning left to right
RECURSIVE str_count(_, _)
str_count(s, sub) ==
    IF Len(s) < Len(sub) THEN 0
    ELSE IF StartsWith(s, sub)
         THEN 1 + str_count(SubSeq(s, Len(sub) + 1, Len(s)), sub)
         ELSE str_count(Tail(s), sub)

\* s.replace(old, ""): every non-overlapping occurrence removed
RECURSIVE str_remove(_, _)
str_remove(s, old) ==
    IF Len(s) < Len(old) THEN s
    ELSE IF StartsWith(s, old)
         THEN str_remove(SubSeq(s, Len(old) + 1, Len(s)), old)
         ELSE <<Head(s)>> \o str_remove(Tail(s), old)

\* the literals of step_4_verify_post
OverallPassed == <<"overall ", "status:", " ", "passed">>
RecommendPublish == <<"recommendation:", " ", "publish">>
RecommendPublishNl == <<"recommendation:", "\n", "publish">>
StatusVerified == <<"status:", " ", "verified">>
StatusUnverified == <<"status:", " ", "un", "verified">>

----------------------------------------------------------------------------
(* Reports the verifier can return, after the output format of             *)
(* FACT_VERIFIER_PROMPT: an overall status line, one status line per       *)
(* claim, a recommendation; each plain or wrapped in emphasis markup.      *)

OverallStyles == {"none", "passed", "passed_bold", "failed"}
ClaimStyles == {"plain", "bold", "italic"}
RecStyles == {"none", "publish", "publish_bold", "publish_nl", "revise"}

OverallLine(o) ==
    CASE o = "none" -> <<>>
      [] o = "passed" -> <<"Overall ", "Status:", " ", "PASSED", "\n">>
      [] o = "passed_bold" ->
            <<"*", "*", "Overall ", "Status:", "*", "*", " ", "PASSED", "\n">>
      [] o = "failed" -> <<"Overall ", "Status:", " ", "FAILED", "\n">>

StatusWord(is_verified) ==
    IF is_verified THEN <<"VERIFIED">> ELSE <<"UN", "VERIFIED">>

ClaimLine(is_verified, style) ==
    CASE style = "plain" ->
            <<"Claim", "\n", "Status:", " ">> \o StatusWord(is_verified) \o <<"\n">>
      [] style = "bold" ->
            <<"Claim", "\n", "*", "*", "Status:", "*", "*", " ">>
                \o StatusWord(is_verified) \o <<"\n">>
      [] style = "italic" ->
            <<"Claim", "\n", "Status:", " ", "*">>
                \o StatusWord(is_verified) \o <<"*", "\n">>

RECURSIVE ClaimLines(_, _)
ClaimLines(claims, style) ==
    IF claims = <<>> THEN <<>>
    ELSE ClaimLine(Head(claims), style) \o ClaimLines(Tail(claims), style)

RecLine(r) ==
    CASE r = "none" -> <<>>
      [] r = "publish" -> <<"Recommendation:", " ", "PUBLISH">>
      [] r = "publish_bold" ->
            <<"Recommendation:", " ", "*", "*", "PUBLISH", "*", "*">>
      [] r = "publish_nl" -> <<"RECOMMENDATION:", "\n", "PUBLISH">>
      [] r = "revise" -> <<"Recommendation:", " ", "REVISE">>

\* the text of a report
Render(r) ==
    OverallLine(r.overall) \o ClaimLines(r.claims, r.style) \o RecLine(r.rec)

ClaimSeqs(n) == UNION {[1..k -> BOOLEAN] : k \in 0..n}

Reports ==
    {r \in [overall : OverallStyles, claims : ClaimSeqs(MaxClaims),
            style : ClaimStyles, rec : RecStyles] :
        r.claims = <<>> => r.style = "plain"}

EmptyReport == [overall |-> "none", claims |-> <<>>, style |-> "plain", rec |-> "none"]

----------------------------------------------------------------------------
(* step_4_verify_post: the parse of the verifier's report *)

\* main.py:184-186, on report_lower
PassedSignal(report_lower) ==
    \/ str_in(OverallPassed, report_lower)
    \/ str_in(RecommendPublish, report_lower)
    \/ str_in(RecommendPublishNl, report_lower)

\* the counting done on the text as lower-cased, markup left in
ReportClean_markup_kept(report_lower) == report_lower

\* main.py:190
ReportClean(report_lower) ==
    str_remove(str_remove(report_lower, <<"*", "*">>), <<"*">>)

\* the percentage rounded to the nearest integer
PercentOf_rounded(verified_count, total_claims) ==
    (verified_count * 200 + total_claims) \div (2 * total_claims)

\* main.py:197, int((verified_count / total_claims) * 100): the float
\* product truncated; equal to the integer quotient for every total below 50
PercentOf(verified_count, total_claims) ==
    (verified_count * 100) \div total_claims

\* the confidence of a report without claims taken as full
Confidence_empty_full(verified_count, unverified_count) ==
    IF verified_count + unverified_count > 0
    THEN PercentOf(verified_count, verified_count + unverified_count)
    ELSE 100

\* main.py:196-199
Confidence(verified_count, unverified_count) ==
    IF verified_count + unverified_count > 0
    THEN PercentOf(verified_count, verified_count + unverified_count)
    ELSE 0

\* the override without its verified_count > 0 test
AllVerified_no_count(verified_count, unverified_count) ==
    unverified_count = 0

\* main.py:202
AllVerified(verified_count, unverified_count) ==
    unverified_count = 0 /\ verified_count > 0

\* main.py:190-192 and 207: the counts step_4_verify_post prints
claim_counts(verification_report) ==
    LET report_clean == ReportClean(str_lower(verification_report))
    IN  <<str_count(report_clean, StatusVerified),
          str_count(report_clean, StatusUnverified)>>

\* the override raising the confidence and leaving passed to the phrases
step_4_verify_post_confidence_only(verification_report) ==
    LET report_lower == str_lower(verification_report)
        verified_count == claim_counts(verification_report)[1]
        unverified_count == claim_counts(verification_report)[2]
        override == AllVerified(verified_count, unverified_count)
    IN  [passed |-> PassedSignal(report_lower),
         confidence |-> IF override THEN 100
                        ELSE Confidence(verified_count, unverified_count),
         report |-> verification_report]

\* main.py:180-214, given the text call_agent returned
step_4_verify_post(verification_report) ==
    LET report_lower == str_lower(verification_report)
        verified_count == claim_counts(verification_report)[1]
        unverified_count == claim_counts(verification_report)[2]
        override == AllVerified(verified_count, unverified_count)
    IN  [passed |-> IF override THEN TRUE ELSE PassedSignal(report_lower),
         confidence |-> IF override THEN 100
                        ELSE Confidence(verified_count, unverified_count),
         report |-> verification_report]

\* no verdict yet (the variable is unassigned)
NoVerdict == [passed |-> FALSE, confidence |-> -1, report |-> <<>>]

----------------------------------------------------------------------------
(* The collaborators of run_workflow *)

\* what the feeds return to one fetch of a workflow run; the run has no
\* GNEWS_API_KEY, so that fetch_gnews returns [] (gnews_fetcher.py:36-40)
RssArticle == [source |-> "OpenAI", title |-> 1, url |-> 1]
RssResults == {<<>>, <<RssArticle>>}
GnewsResults == {<<>>}

\* main.py:68-85: None without articles, else the formatted list
step_1_fetch_news_always_text(articles) ==
    Some([found |-> Len(articles), items |-> articles])

step_1_fetch_news(articles) ==
    IF articles = <<>> THEN None
    ELSE Some([found |-> Len(articles), items |-> articles])

\* texts the curator can return: the URLs and the titles found in them
CuratedTexts ==
    {[urls |-> {}, titles |-> {}], [urls |-> {1}, titles |-> {1, 2}]}

\* texts the writer and the rewriter can return
Texts == 1..MaxText

\* reports the verifier returns inside the loop: all claims verified;
\* one of two unverified with FAILED; one of two unverified with PASSED
LoopReports ==
    {[overall |-> "passed", claims |-> <<TRUE, TRUE>>, style |-> "bold", rec |-> "publish"],
     [overall |-> "failed", claims |-> <<TRUE, FALSE>>, style |-> "plain", rec |-> "revise"],
     [overall |-> "passed", claims |-> <<TRUE, FALSE>>, style |-> "plain", rec |-> "none"]}

\* the run time that names the review file
Timestamps == {"20260101_090000"}

\* main.py:113-145
step_2b_fetch_full_articles(curated_text, articles) ==
    LET all_urls == curated_text.urls \cup
            {articles[i].url : i \in {k \in DOMAIN articles :
                                        articles[k].title \in curated_text.titles}}
    IN  IF all_urls = {} THEN [curated |-> curated_text, full |-> {}]
        ELSE [curated |-> curated_text, full |-> all_urls]

----------------------------------------------------------------------------
(* src/tools/linkedin_poster.py *)

\* a call that returned v, and a call that raised
Returned(v) == [raised |-> FALSE, value |-> v]
Raised(e) == [raised |-> TRUE, value |-> [error |-> e]]

\* what api.linkedin.com answers to GET /v2/userinfo: a transport or HTTP
\* error, an empty body, a profile without "sub", a profile with it
ProfileResponses == {"error", "empty", "no_sub", "ok"}
\* what it answers to POST /v2/ugcPosts: 201, another status, a transport
\* error
PostResponses == {"201", "other", "error"}
LinkedInResponses == [profile : ProfileResponses, post : PostResponses]

\* linkedin_poster.py:14-33: None on a request error, else the body
get_user_profile(li) ==
    IF li.profile = "error" THEN None ELSE Some(li.profile)

\* linkedin_poster.py:57 and 126, the truth value of the profile
ProfileTruthy(profile) == profile # None /\ profile # Some("empty")

\* the transport error of the POST left uncaught
post_to_linkedin_uncaught(content, access_token, li) ==
    IF ~access_token
    THEN Returned([success |-> FALSE, error |-> "LINKEDIN_ACCESS_TOKEN not set"])
    ELSE IF ~ProfileTruthy(get_user_profile(li))
    THEN Returned([success |-> FALSE, error |-> "Failed to fetch user profile"])
    ELSE IF get_user_profile(li) = Some("no_sub")
    THEN Returned([success |-> FALSE, error |-> "Could not get user ID from profile"])
    ELSE IF li.post = "201"
    THEN Returned([success |-> TRUE, post_id |-> "id",
                   message |-> "Post published successfully"])
    ELSE IF li.post = "other"
    THEN Returned([success |-> FALSE, error |-> "HTTP status and body"])
    ELSE Raised("RequestException")

\* linkedin_poster.py:36-112; access_token is whether the argument or
\* LINKEDIN_ACCESS_TOKEN holds a token
post_to_linkedin(content, access_token, li) ==
    IF ~access_token
    THEN Returned([success |-> FALSE, error |-> "LINKEDIN_ACCESS_TOKEN not set"])
    ELSE IF ~ProfileTruthy(get_user_profile(li))
    THEN Returned([success |-> FALSE, error |-> "Failed to fetch user profile"])
    ELSE IF get_user_profile(li) = Some("no_sub")
    THEN Returned([success |-> FALSE, error |-> "Could not get user ID from profile"])
    ELSE IF li.post = "201"
    THEN Returned([success |-> TRUE, post_id |-> "id",
                   message |-> "Post published successfully"])
    ELSE IF li.post = "other"
    THEN Returned([success |-> FALSE, error |-> "HTTP status and body"])
    ELSE Returned([success |-> FALSE, error |-> "RequestException"])

\* linkedin_poster.py:115-133
validate_linkedin_token(access_token, li) ==
    IF ~access_token
    THEN Returned([valid |-> FALSE, error |-> "No access token provided"])
    ELSE IF ProfileTruthy(get_user_profile(li))
    THEN Returned([valid |-> TRUE, user_name |-> "name", user_email |-> "email"])
    ELSE Returned([valid |-> FALSE, error |-> "Token is invalid or expired"])

----------------------------------------------------------------------------
(* src/tools/rss_fetcher.py, src/tools/gnews_fetcher.py: an item is       *)
(* published on one source under a URL at a date; a date is kept as the   *)
(* number of hours before now, so the newest item has the least age.      *)

\* rss_fetcher.py:11-19, two of the seven feeds, in the order of the dict
RSS_FEEDS == <<"OpenAI", "Anthropic">>
GnewsSource == "GNews"
Urls == {"u1", "u2"}
Ages == {12, 72}
\* values of --hours, main.py:415-420
HoursBack == {48, 168}

SeqsUpTo(S, n) == UNION {[1..k -> S] : k \in 0..n}
Range(s) == {s[i] : i \in DOMAIN s}

Items ==
    [source : Range(RSS_FEEDS) \cup {GnewsSource}, url : Urls, age : Ages]

OfSource(published, src) == SelectSeq(published, LAMBDA it : it.source = src)

NewestFirst(s) == \A i, j \in DOMAIN s : i < j => s[i].age <= s[j].age

DistinctUrls(s) == \A i, j \in DOMAIN s : i # j => s[i].url # s[j].url

\* what is published: a feed lists an entry once; the news API lists its
\* items newest first, as the request asks (sortby, gnews_fetcher.py:54),
\* and may list a URL twice
Published ==
    {w \in SeqsUpTo(Items, MaxItems) :
        /\ \A f \in Range(RSS_FEEDS) : DistinctUrls(OfSource(w, f))
        /\ NewestFirst(OfSource(w, GnewsSource))}

\* rss_fetcher.py:45-64 for one feed: nothing when the retrieval raises,
\* else the entries published at or after the cutoff
FeedArticles(published, feed, ok, hours_back) ==
    IF ~ok THEN <<>>
    ELSE SelectSeq(OfSource(published, feed), LAMBDA it : it.age <= hours_back)

\* list.sort(key=date, reverse=True) is stable: an item goes behind the
\* items that are as new as it is
RECURSIVE InsertByDate(_, _)
InsertByDate(sorted, a) ==
    IF sorted = <<>> THEN <<a>>
    ELSE IF Head(sorted).age <= a.age
    THEN <<Head(sorted)>> \o InsertByDate(Tail(sorted), a)
    ELSE <<a>> \o sorted

RECURSIVE SortByDate(_)
SortByDate(s) ==
    IF s = <<>> THEN <<>>
    ELSE InsertByDate(SortByDate(SubSeq(s, 1, Len(s) - 1)), s[Len(s)])

RECURSIVE RssCollected(_, _, _, _)
RssCollected(published, feed_ok, hours_back, i) ==
    IF i > Len(RSS_FEEDS) THEN <<>>
    ELSE FeedArticles(published, RSS_FEEDS[i], feed_ok[RSS_FEEDS[i]], hours_back)
         \o RssCollected(published, feed_ok, hours_back, i + 1)

\* rss_fetcher.py:31-69
fetch_rss_feeds(published, feed_ok, hours_back) ==
    SortByDate(RssCollected(published, feed_ok, hours_back, 1))

\* gnews_fetcher.py:61-76: an item whose URL was seen is left out
RECURSIVE DedupByUrl(_, _)
DedupByUrl(items, seen_urls) ==
    IF items = <<>> THEN <<>>
    ELSE IF Head(items).url \in seen_urls
    THEN DedupByUrl(Tail(items), seen_urls)
    ELSE <<Head(items)>> \o DedupByUrl(Tail(items), seen_urls \cup {Head(items).url})

\* the news API: no GNEWS_API_KEY, a request that fails, an answer
GnewsStates == {"no_key", "error", "ok"}

\* gnews_fetcher.py:25-83
fetch_gnews(published, gnews) ==
    IF gnews = "no_key" THEN <<>>
    ELSE IF gnews = "error" THEN <<>>
    ELSE DedupByUrl(OfSource(published, GnewsSource), {})

\* main.py:58-69, the list step 1 formats
CollectedArticles(published, feed_ok, gnews, hours_back) ==
    fetch_rss_feeds(published, feed_ok, hours_back) \o fetch_gnews(published, gnews)

----------------------------------------------------------------------------
(* src/tools/article_fetcher.py *)

\* what the GET of an article gives: a transport or HTTP error, a page the
\* parser fails on, a page with no article element and no body, a page
\* with text
PageResponses == {"request_error", "parse_error", "no_article", "ok"}

\* an exception of the parse left uncaught
fetch_article_content_uncaught(url, page) ==
    IF page = "ok"
    THEN Returned([title |-> "title", content |-> "paragraphs", url |-> url])
    ELSE IF page = "no_article"
    THEN Returned([title |-> "Could not fetch",
                   content |-> "Failed to extract article content", url |-> url])
    ELSE IF page = "request_error"
    THEN Returned([title |-> "Fetch error",
                   content |-> "Could not fetch article: error", url |-> url])
    ELSE Raised("Exception")

\* article_fetcher.py:21-117
fetch_article_content(url, page) ==
    IF page = "ok"
    THEN Returned([title |-> "title", content |-> "paragraphs", url |-> url])
    ELSE IF page = "no_article"
    THEN Returned([title |-> "Could not fetch",
                   content |-> "Failed to extract article content", url |-> url])
    ELSE IF page = "request_error"
    THEN Returned([title |-> "Fetch error",
                   content |-> "Could not fetch article: error", url |-> url])
    ELSE Returned([title |-> "Parse error",
                   content |-> "Could not parse article: error", url |-> url])

\* article_fetcher.py:120-136: one block per URL, in order; an exception
\* of fetch_article_content would leave the loop
RECURSIVE fetch_multiple_articles(_, _)
fetch_multiple_articles(urls, pages) ==
    IF urls = <<>> THEN Returned(<<>>)
    ELSE LET article == fetch_article_content(Head(urls), pages[Head(urls)])
             rest == fetch_multiple_articles(Tail(urls), pages)
         IN  IF article.raised THEN article
             ELSE IF rest.raised THEN rest
             ELSE Returned(<<article.value>> \o rest.value)

\* list(all_urls)[:5] at main.py:126: a list of distinct URLs
UrlLists ==
    {l \in SeqsUpTo(Urls, MaxUrls) : \A i, j \in DOMAIN l : i # j => l[i] # l[j]}

----------------------------------------------------------------------------
(* A tool called alone: its arguments and the answers of the network      *)

NoInput ==
    [published |-> <<>>, feed_ok |-> [f \in Range(RSS_FEEDS) |-> TRUE],
     gnews |-> "no_key", hours_back |-> 48, urls |-> <<>>,
     pages |-> [u \in Urls |-> "ok"], access_token |-> FALSE,
     linkedin |-> [profile |-> "ok", post |-> "201"], content |-> 1]

FetchInputs ==
    {[NoInput EXCEPT !.published = w, !.feed_ok = fo, !.gnews = g,
                     !.hours_back = h] :
        w \in Published, fo \in [Range(RSS_FEEDS) -> BOOLEAN],
        g \in GnewsStates, h \in HoursBack}

ArticleInputs ==
    {[NoInput EXCEPT !.urls = l, !.pages = pg] :
        l \in UrlLists, pg \in [Urls -> PageResponses]}

LinkedInInputs ==
    {[NoInput EXCEPT !.access_token = tk, !.linkedin = li, !.content = c] :
        tk \in BOOLEAN, li \in LinkedInResponses, c \in 1..MaxText}

ToolIdle ==
    /\ t_fn = "none"
    /\ t_in = NoInput
    /\ t_out = None

ParseIdle ==
    /\ p_src = EmptyReport
    /\ p_verdict = NoVerdict
    /\ p_claims = <<0, 0>>

----------------------------------------------------------------------------
(* agent_builder/tools_server.py: the endpoints /tools/post_to_linkedin    *)
(* and /tools/full_workflow                                                *)

Endpoints == {"post_to_linkedin", "full_workflow"}

\* request.json: no JSON body, or an object with or without the fields
\* 'content' and 'auto_post'
Bodies ==
    {None} \cup
    {Some([content |-> c, auto_post |-> a]) :
        c \in {None} \cup {Some(t) : t \in Texts},
        a \in {"missing", "false", "true"}}

\* tools_server.py:146, not data or 'content' not in data
MissingContent(data) == data = None \/ data[1].content = None

\* tools_server.py:172-174 and 187, data.get('auto_post', False) of
\* request.json or {}
AutoPost(data) == data # None /\ data[1].auto_post = "true"

\* what the generation inside generate_post comes to: a post, no article
\* found, an exception
GenOutcomes == {"post", "no_articles", "raised"}

\* tools_server.py:83-138: a response, or the pair (response, 500) of the
\* except branch
generate_post(outcome, text) ==
    IF outcome = "post"
    THEN [tuple |-> FALSE, json |-> [success |-> TRUE, post |-> text]]
    ELSE IF outcome = "no_articles"
    THEN [tuple |-> FALSE,
          json |-> [success |-> FALSE, error |-> "No articles found"]]
    ELSE [tuple |-> TRUE, json |-> [success |-> FALSE, error |-> "exception"]]

\* jsonify(body), status_code
Response(status_code, body) == [status_code |-> status_code, body |-> body]

\* the validation result not consulted
TokenValid_unchecked(validation) == TRUE

\* tools_server.py:153 and 190, validation.get('valid')
TokenValid(validation) == validation.valid

\* tools_server.py:154-157 and 191-195, the answer to an invalid token
InvalidTokenResponse(endpoint, content) ==
    IF endpoint = "post_to_linkedin"
    THEN Response(401, [success |-> FALSE,
                        error |-> "LinkedIn token is invalid or expired"])
    ELSE Response(200, [success |-> FALSE, post |-> content,
                        error |-> "LinkedIn token invalid - post generated but not published"])

\* tools_server.py:160 and 198-202, the answer after the publish call
PublishResponse(endpoint, content, result) ==
    IF endpoint = "post_to_linkedin"
    THEN Response(200, result)
    ELSE Response(200, [success |-> result.success, post |-> content,
                        linkedin_result |-> result])

\* tools_server.py:162-163 and 210-211, the except branch
ErrorResponse == Response(500, [success |-> FALSE, error |-> "exception"])

NoSrvCalls == [validate_linkedin_token |-> 0, post_to_linkedin |-> 0]

SrvIdle ==
    /\ srv_pc = "idle"
    /\ srv_env = [LINKEDIN_ACCESS_TOKEN |-> FALSE]
    /\ srv_endpoint = "none"
    /\ srv_data = None
    /\ srv_content = None
    /\ srv_validation = None
    /\ srv_response = None
    /\ srv_calls = NoSrvCalls

----------------------------------------------------------------------------
(* deploy_openai.py: run_assistant and handle_tool_call *)

\* deploy_openai.py:308-312 and 324, the flags followed here
AsstFlags == {"run", "post", "none"}

\* status of the remote run as runs.retrieve reports it
PendingStatuses == {"queued", "in_progress"}
EndedStatuses == {"failed", "cancelled", "expired"}
RunStatuses ==
    PendingStatuses \cup EndedStatuses \cup {"completed", "requires_action"}

\* deploy_openai.py:57-110, the three tools declared, and a name outside
ToolNames ==
    {"fetch_ai_news", "fetch_full_article", "post_to_linkedin", "unknown"}

\* tool_call.function.arguments, a string the remote model wrote: a JSON
\* object, or text that is no JSON
ArgumentStrings == {"object", "malformed"}

ToolCalls == [name : ToolNames, arguments : ArgumentStrings]
ToolCallLists == UNION {[1..k -> ToolCalls] : k \in 1..MaxToolCalls}

\* deploy_openai.py:236, json.loads
json_loads(arguments) ==
    IF arguments = "malformed" THEN Raised("JSONDecodeError")
    ELSE Returned(arguments)

\* deploy_openai.py:200-203
UserMessage(post) == IF post THEN "write and post" ELSE "draft only"

\* deploy_openai.py:113-145; post_calls counts its calls of
\* post_to_linkedin, the output is what json.dumps is given
handle_tool_call(tool_name, arguments, access_token, li) ==
    IF tool_name = "fetch_ai_news"
    THEN [result |-> Returned([articles |-> "list"]), post_calls |-> 0]
    ELSE IF tool_name = "fetch_full_article"
    THEN [result |-> Returned([article |-> "dict"]), post_calls |-> 0]
    ELSE IF tool_name = "post_to_linkedin"
    THEN LET r == post_to_linkedin(arguments, access_token, li)
         IN  [result |-> IF r.raised THEN r
                         ELSE Returned([linkedin_result |-> r.value]),
              post_calls |-> 1]
    ELSE [result |-> Returned([error |-> "Unknown tool"]), post_calls |-> 0]

NoOutputs == [tool_outputs |-> <<>>, post_calls |-> 0, raised |-> FALSE]

\* deploy_openai.py:231-243, the for loop continued from the outputs so far
RECURSIVE handle_tool_calls(_, _, _, _)
handle_tool_calls(tool_calls, access_token, li, acc) ==
    IF acc.raised \/ Len(acc.tool_outputs) = Len(tool_calls) THEN acc
    ELSE LET i == Len(acc.tool_outputs) + 1
             tool_call == tool_calls[i]
             args == json_loads(tool_call.arguments)
         IN  IF args.raised THEN [acc EXCEPT !.raised = TRUE]
             ELSE LET h == handle_tool_call(tool_call.name, args.value,
                                            access_token, li)
                  IN  IF h.result.raised
                      THEN [acc EXCEPT !.raised = TRUE,
                                       !.post_calls = @ + h.post_calls]
                      ELSE handle_tool_calls(tool_calls, access_token, li,
                               [tool_outputs |->
                                    Append(acc.tool_outputs,
                                           [tool_call_id |-> i,
                                            output |-> h.result.value]),
                                post_calls |-> acc.post_calls + h.post_calls,
                                raised |-> FALSE])

\* messages.data: each message has a role and one content item
Messages ==
    [role : {"user", "assistant"}, type : {"text", "image_file"},
     value : Texts]
MessageLists == SeqsUpTo(Messages, 2)

\* deploy_openai.py:262-272
RECURSIVE first_assistant_text(_)
first_assistant_text(data) ==
    IF data = <<>> THEN None
    ELSE IF Head(data).role = "assistant" /\ Head(data).type = "text"
    THEN Some(Head(data).value)
    ELSE first_assistant_text(Tail(data))

NoRun == [status |-> "none", tool_calls |-> <<>>]

NoAsstCalls ==
    [retrieve |-> 0, submit_tool_outputs |-> 0, messages_list |-> 0,
     post_to_linkedin |-> 0]

AsstIdle ==
    /\ asst_pc = "idle"
    /\ asst_args = "none"
    /\ asst_env = [LINKEDIN_ACCESS_TOKEN |-> FALSE]
    /\ auto_post = FALSE
    /\ user_message = None
    /\ run = NoRun
    /\ tool_outputs = <<>>
    /\ asst_calls = NoAsstCalls
    /\ asst_result = None

EntryIdle == SrvIdle /\ AsstIdle

-----------------------------------------------------------------------------
(* run_workflow *)

max_retries == 3

\* the while condition with the retry test off by one
LoopCond_one_more(cv, rc) ==
    (~cv.passed \/ cv.confidence < 100) /\ rc <= max_retries

\* main.py:349, the while condition
LoopCond(cv, rc) ==
    (~cv.passed \/ cv.confidence < 100) /\ rc < max_retries

\* the final check on the status instead of the confidence
NeedsReview_status_only(cv) == ~cv.passed

\* main.py:372, the final check
NeedsReview(cv) == cv.confidence < 100

\* the break taken on any passed verdict
BreakCond_passed(cv) == cv.passed

\* main.py:367, the break
BreakCond(cv) == cv.confidence = 100

\* the review file written with the draft only
ReviewFile_no_report(name, draft, cv) ==
    [name |-> name, draft |-> draft, report |-> <<>>]

\* main.py:378-384, the review file
ReviewFile(name, draft, cv) ==
    [name |-> name, draft |-> draft, report |-> cv.report]

RewriteKey(k) == "rewrite_" \o ToString(k)
VerifyKey(k) == IF k = 0 THEN "verify" ELSE "verify_" \o ToString(k)

\* the verification run whatever the flag
VerificationOn_always(skip) == TRUE

\* main.py:340
VerificationOn(skip) == ~skip

\* no step call made yet
NoCall ==
    [fn |-> "none", draft |-> None, report |-> None, source |-> None,
     result |-> None]

\* main.py:336: the writer is given the enhanced content
WriteArgs(enhanced) ==
    [fn |-> "write", draft |-> None, report |-> None, source |-> enhanced,
     result |-> None]

\* main.py:341 and 364: the verifier is given the draft and the enhanced
\* content
VerifyArgs(draft, enhanced) ==
    [fn |-> "verify", draft |-> draft, report |-> None, source |-> enhanced,
     result |-> None]

\* the rewriter given the draft and the report without the sources
RewriteArgs_no_source(draft, cv, enhanced) ==
    [fn |-> "rewrite", draft |-> draft, report |-> Some(cv.report),
     source |-> None, result |-> None]

\* main.py:355-359: the rewriter is given the draft, the report of the
\* current verdict and the enhanced content
RewriteArgs(draft, cv, enhanced) ==
    [fn |-> "rewrite", draft |-> draft, report |-> Some(cv.report),
     source |-> enhanced, result |-> None]

\* the publish step given the draft the writer returned
PostArgs_first_draft(draft, res) ==
    [fn |-> "post", draft |-> Some(res.steps["write"].draft), report |-> None,
     source |-> None, result |-> None]

\* main.py:394: the publish step is given the current draft
PostArgs(draft, res) ==
    [fn |-> "post", draft |-> draft, report |-> None, source |-> None,
     result |-> None]

\* main.py:328: the curator is given the text of step 1
CurateArgs(text) ==
    [fn |-> "curate", draft |-> None, report |-> None, source |-> text,
     result |-> None]

\* failed counts the generative calls that raised
NoCalls ==
    [fetch |-> 0, curate |-> 0, write |-> 0, verify |-> 0, rewrite |-> 0,
     failed |-> 0, step_5 |-> 0, validate_linkedin_token |-> 0,
     post_to_linkedin |-> 0, review_files |-> 0]

\* main.py:306-310 (started_at, a wall-clock reading, is left out)
NewResults(dr) ==
    [dry_run |-> dr, steps |-> <<>>, status |-> "", reason |-> "",
     draft_file |-> "", final_confidence |-> -1]

\* main.py:436-442, the test that makes main exit: a credential the
\* selected mode needs is absent
MissingCredential_openai_only(e, post) == ~e.OPENAI_API_KEY

MissingCredential(e, post) ==
    \/ ~e.OPENAI_API_KEY
    \/ post /\ ~e.LINKEDIN_ACCESS_TOKEN

\* main.py:396, the status of a run that reached the publish step
RunStatus_failure_unnamed(post_result) ==
    IF post_result.success THEN "success" ELSE ""

RunStatus(post_result) ==
    IF post_result.success THEN "success" ELSE "failed"

\* the record written without the status
LogFile_no_status(name, res) ==
    [name |-> name, content |-> [res EXCEPT !.status = ""]]

\* main.py:453-456, the run summary: the whole result dict as JSON
LogFile(name, res) == [name |-> name, content |-> res]

\* the publish call made in dry-run mode too
step_5_post_to_linkedin_always_posts(content, dr, access_token, li) ==
    [result |-> post_to_linkedin(content, access_token, li), post_calls |-> 1]

\* main.py:259-280: the result of the step and the number of calls of
\* post_to_linkedin it makes
step_5_post_to_linkedin(content, dr, access_token, li) ==
    IF dr
    THEN [result |-> Returned([success |-> TRUE, dry_run |-> TRUE]),
          post_calls |-> 0]
    ELSE [result |-> post_to_linkedin(content, access_token, li),
          post_calls |-> 1]

\* dry_run, skip_verification and confidence_threshold are the arguments
\* main passes at main.py:445-450: not args.post, args.skip_verify,
\* args.threshold
Init ==
    /\ pc = "main"
    /\ env \in [OPENAI_API_KEY : BOOLEAN, LINKEDIN_ACCESS_TOKEN : BOOLEAN]
    /\ exit_code = -1
    /\ logs_dir = {}
    /\ ToolIdle
    /\ EntryIdle
    /\ dry_run \in BOOLEAN
    /\ skip_verification \in BOOLEAN
    /\ confidence_threshold \in {50, 85}
    /\ step1_articles = <<>>
    /\ articles_text = None
    /\ all_articles = <<>>
    /\ curated = None
    /\ enhanced_content = None
    /\ draft_post = None
    /\ current_verification = NoVerdict
    /\ retry_count = 0
    /\ results = NewResults(dry_run)
    /\ drafts_dir = {}
    /\ calls = NoCalls
    /\ last_call = NoCall
    /\ verified_draft = None
    /\ ParseIdle

\* main.py:435-442: sys.exit(1) when a credential is absent (without
\* OPENAI_API_KEY the client construction at main.py:28 raises first, which
\* ends the process with the same status); else run_workflow is entered
main_validate_environment ==
    /\ pc = "main"
    /\ IF MissingCredential(env, ~dry_run)
       THEN pc' = "exit" /\ exit_code' = 1
       ELSE pc' = "start" /\ exit_code' = exit_code
    /\ UNCHANGED <<dry_run, skip_verification, confidence_threshold,
                   step1_articles, articles_text, all_articles, curated,
                   enhanced_content, draft_post, current_verification,
                   retry_count, results, drafts_dir, calls, env, logs_dir,
                   arg_vars, lib_vars>>

\* main.py:312-318 with step_1_fetch_news, main.py:52-85
fetch_news ==
    /\ pc = "start"
    /\ \E rss \in RssResults, gnews \in GnewsResults :
        LET text == step_1_fetch_news(rss \o gnews) IN
        /\ step1_articles' = rss \o gnews
        /\ articles_text' = text
        /\ IF text = None
           THEN /\ results' = [results EXCEPT !.status = "skipped",
                                              !.reason = "No articles found"]
                /\ pc' = "done"
           ELSE /\ results' = results
                /\ pc' = "refetch"
    /\ calls' = [calls EXCEPT !.fetch = @ + 1]
    /\ UNCHANGED <<dry_run, skip_verification, confidence_threshold,
                   all_articles, curated, enhanced_content, draft_post,
                   current_verification, retry_count, drafts_dir,
                   m_vars, arg_vars, lib_vars>>

\* main.py:320-325
refetch_articles ==
    /\ pc = "refetch"
    /\ \E rss \in RssResults, gnews \in GnewsResults :
        /\ all_articles' = rss \o gnews
        /\ results' = [results EXCEPT !.steps =
               ("fetch" :> [articles_found |-> Len(rss \o gnews)]) @@ @]
    /\ calls' = [calls EXCEPT !.fetch = @ + 1]
    /\ pc' = "curate"
    /\ UNCHANGED <<dry_run, skip_verification, confidence_threshold,
                   step1_articles, articles_text, curated, enhanced_content,
                   draft_post, current_verification, retry_count, drafts_dir,
                   m_vars, arg_vars, lib_vars>>

\* main.py:327-329 with step_2_curate_news, main.py:88-104
curate_news ==
    /\ pc = "curate"
    /\ \E c \in CuratedTexts :
        /\ curated' = Some(c)
        /\ last_call' = [CurateArgs(articles_text) EXCEPT !.result = Some(c)]
    /\ calls' = [calls EXCEPT !.curate = @ + 1]
    /\ results' = [results EXCEPT !.steps = ("curate" :> [completed |-> TRUE]) @@ @]
    /\ pc' = "fetch_full"
    /\ UNCHANGED <<dry_run, skip_verification, confidence_threshold,
                   step1_articles, articles_text, all_articles,
                   enhanced_content, draft_post, current_verification,
                   retry_count, drafts_dir, m_vars, verified_draft, lib_vars>>

\* main.py:331-333
fetch_full_articles ==
    /\ pc = "fetch_full"
    /\ enhanced_content' = Some(step_2b_fetch_full_articles(curated[1], all_articles))
    /\ results' = [results EXCEPT !.steps = ("fetch_full" :> [completed |-> TRUE]) @@ @]
    /\ pc' = "write"
    /\ UNCHANGED <<dry_run, skip_verification, confidence_threshold,
                   step1_articles, articles_text, all_articles, curated,
                   draft_post, current_verification, retry_count, drafts_dir,
                   calls, m_vars, arg_vars, lib_vars>>

\* main.py:335-337 with step_3_write_post, main.py:148-163
write_post ==
    /\ pc = "write"
    /\ \E d \in Texts :
        /\ draft_post' = Some(d)
        /\ last_call' = [WriteArgs(enhanced_content) EXCEPT !.result = Some(d)]
        /\ results' = [results EXCEPT !.steps =
               ("write" :> [completed |-> TRUE, draft |-> d]) @@ @]
    /\ calls' = [calls EXCEPT !.write = @ + 1]
    /\ pc' = "verify"
    /\ UNCHANGED <<dry_run, skip_verification, confidence_threshold,
                   step1_articles, articles_text, all_articles, curated,
                   enhanced_content, current_verification, retry_count,
                   drafts_dir, m_vars, verified_draft, lib_vars>>

\* main.py:340 and 390-391
skip_verify ==
    /\ pc = "verify"
    /\ ~VerificationOn(skip_verification)
    /\ results' = [results EXCEPT !.steps = ("verify" :> [skipped |-> TRUE]) @@ @]
    /\ pc' = "post"
    /\ UNCHANGED <<dry_run, skip_verification, confidence_threshold,
                   step1_articles, articles_text, all_articles, curated,
                   enhanced_content, draft_post, current_verification,
                   retry_count, drafts_dir, calls, m_vars,
                   arg_vars, lib_vars>>

\* main.py:340-347
verify_post ==
    /\ pc = "verify"
    /\ VerificationOn(skip_verification)
    /\ \E r \in LoopReports :
        LET verification == step_4_verify_post(Render(r)) IN
        /\ current_verification' = verification
        /\ last_call' = [VerifyArgs(draft_post, enhanced_content)
                            EXCEPT !.result = Some(verification.report)]
        /\ results' = [results EXCEPT !.steps = ("verify" :> verification) @@ @]
    /\ verified_draft' = draft_post
    /\ calls' = [calls EXCEPT !.verify = @ + 1]
    /\ retry_count' = 0
    /\ pc' = "loop"
    /\ UNCHANGED <<dry_run, skip_verification, confidence_threshold,
                   step1_articles, articles_text, all_articles, curated,
                   enhanced_content, draft_post, drafts_dir,
                   m_vars, lib_vars>>

\* main.py:349-360
rewrite_post ==
    /\ pc = "loop"
    /\ LoopCond(current_verification, retry_count)
    /\ retry_count' = retry_count + 1
    /\ \E d \in Texts :
        /\ draft_post' = Some(d)
        /\ last_call' =
              [RewriteArgs(draft_post, current_verification, enhanced_content)
                  EXCEPT !.result = Some(d)]
    /\ calls' = [calls EXCEPT !.rewrite = @ + 1]
    /\ results' = [results EXCEPT !.steps =
           (RewriteKey(retry_count + 1) :> [completed |-> TRUE]) @@ @]
    /\ pc' = "reverify"
    /\ UNCHANGED <<dry_run, skip_verification, confidence_threshold,
                   step1_articles, articles_text, all_articles, curated,
                   enhanced_content, current_verification, drafts_dir,
                   m_vars, verified_draft, lib_vars>>

\* main.py:362-369
reverify_post ==
    /\ pc = "reverify"
    /\ \E r \in LoopReports :
        LET verification == step_4_verify_post(Render(r)) IN
        /\ current_verification' = verification
        /\ last_call' = [VerifyArgs(draft_post, enhanced_content)
                            EXCEPT !.result = Some(verification.report)]
        /\ results' = [results EXCEPT !.steps =
               (VerifyKey(retry_count) :> verification) @@ @]
        /\ pc' = IF BreakCond(verification) THEN "final" ELSE "loop"
    /\ verified_draft' = draft_post
    /\ calls' = [calls EXCEPT !.verify = @ + 1]
    /\ UNCHANGED <<dry_run, skip_verification, confidence_threshold,
                   step1_articles, articles_text, all_articles, curated,
                   enhanced_content, draft_post, retry_count, drafts_dir,
                   m_vars, lib_vars>>

\* main.py:349, the while condition false
loop_exit ==
    /\ pc = "loop"
    /\ ~LoopCond(current_verification, retry_count)
    /\ pc' = "final"
    /\ UNCHANGED <<dry_run, skip_verification, confidence_threshold,
                   step1_articles, articles_text, all_articles, curated,
                   enhanced_content, draft_post, current_verification,
                   retry_count, results, drafts_dir, calls, m_vars,
                   arg_vars, lib_vars>>

\* main.py:371-389
save_draft ==
    /\ pc = "final"
    /\ NeedsReview(current_verification)
    /\ \E now \in Timestamps :
        /\ drafts_dir' = {f \in drafts_dir : f.name # now}
               \cup {ReviewFile(now, draft_post[1], current_verification)}
        /\ results' = [results EXCEPT
               !.status = "draft_saved",
               !.draft_file = now,
               !.final_confidence = current_verification.confidence]
    /\ calls' = [calls EXCEPT !.review_files = @ + 1]
    /\ pc' = "done"
    /\ UNCHANGED <<dry_run, skip_verification, confidence_threshold,
                   step1_articles, articles_text, all_articles, curated,
                   enhanced_content, draft_post, current_verification,
                   retry_count, m_vars, arg_vars, lib_vars>>

\* main.py:372, the final check false
final_check_passes ==
    /\ pc = "final"
    /\ ~NeedsReview(current_verification)
    /\ pc' = "post"
    /\ UNCHANGED <<dry_run, skip_verification, confidence_threshold,
                   step1_articles, articles_text, all_articles, curated,
                   enhanced_content, draft_post, current_verification,
                   retry_count, results, drafts_dir, calls, m_vars,
                   arg_vars, lib_vars>>

\* the publish step run again after a failure
AfterPost_retry(post_result) ==
    IF post_result.success THEN "done" ELSE "post"

\* main.py:393-402: run_workflow returns after the one publish step
AfterPost(post_result) == "done"

\* main.py:393-402 with step_5_post_to_linkedin, main.py:259-280; an
\* exception of post_to_linkedin would leave run_workflow as any other
post_step ==
    /\ pc = "post"
    /\ \E li \in LinkedInResponses :
        LET args == PostArgs(draft_post, results)
            step == step_5_post_to_linkedin(args.draft[1], dry_run,
                                            env.LINKEDIN_ACCESS_TOKEN, li)
            r == step.result
        IN  /\ IF r.raised
               THEN /\ pc' = "raised"
                    /\ exit_code' = 1
                    /\ results' = results
                    /\ last_call' = args
               ELSE /\ pc' = AfterPost(r.value)
                    /\ exit_code' = exit_code
                    /\ results' = [results EXCEPT
                           !.steps = ("post" :> r.value) @@ @,
                           !.status = RunStatus(r.value)]
                    /\ last_call' = [args EXCEPT !.result = Some(r.value)]
            /\ calls' = [calls EXCEPT
                   !.step_5 = @ + 1,
                   !.post_to_linkedin = @ + step.post_calls]
    /\ UNCHANGED <<dry_run, skip_verification, confidence_threshold,
                   step1_articles, articles_text, all_articles, curated,
                   enhanced_content, draft_post, current_verification,
                   retry_count, drafts_dir, env, logs_dir, verified_draft,
                   lib_vars>>

\* the step after a generative call that raised, retried in place
AfterRaise_retry(p) == p

\* main.py:42-49 raises and nothing in run_workflow or main catches it
AfterRaise(p) == "raised"

\* main.py:42-49: the completion request raises; the exception leaves
\* run_workflow and main, and the process ends with status 1
call_agent_raises ==
    /\ \/ pc \in {"curate", "write", "reverify"}
       \/ pc = "verify" /\ VerificationOn(skip_verification)
       \/ pc = "loop" /\ LoopCond(current_verification, retry_count)
    /\ calls' = [calls EXCEPT
           !.curate = IF pc = "curate" THEN @ + 1 ELSE @,
           !.write = IF pc = "write" THEN @ + 1 ELSE @,
           !.verify = IF pc \in {"verify", "reverify"} THEN @ + 1 ELSE @,
           !.rewrite = IF pc = "loop" THEN @ + 1 ELSE @,
           !.failed = @ + 1]
    /\ last_call' =
          IF pc = "curate" THEN CurateArgs(articles_text)
          ELSE IF pc = "write" THEN WriteArgs(enhanced_content)
          ELSE IF pc = "loop"
          THEN RewriteArgs(draft_post, current_verification, enhanced_content)
          ELSE VerifyArgs(draft_post, enhanced_content)
    /\ retry_count' = IF pc = "loop" THEN retry_count + 1 ELSE retry_count
    /\ pc' = AfterRaise(pc)
    /\ exit_code' = IF AfterRaise(pc) = "raised" THEN 1 ELSE exit_code
    /\ UNCHANGED <<dry_run, skip_verification, confidence_threshold,
                   step1_articles, articles_text, all_articles, curated,
                   enhanced_content, draft_post, current_verification,
                   results, drafts_dir, env, logs_dir, verified_draft,
                   lib_vars>>

\* main.py:452-457: run_workflow returned; the result is written under
\* logs/ and main returns
main_save_results ==
    /\ pc = "done"
    /\ \E now \in Timestamps :
        logs_dir' = logs_dir \cup {LogFile(now, results)}
    /\ exit_code' = 0
    /\ pc' = "saved"
    /\ UNCHANGED <<dry_run, skip_verification, confidence_threshold,
                   step1_articles, articles_text, all_articles, curated,
                   enhanced_content, draft_post, current_verification,
                   retry_count, results, drafts_dir, calls, env,
                   arg_vars, lib_vars>>

Next ==
    \/ main_validate_environment
    \/ fetch_news
    \/ refetch_articles
    \/ curate_news
    \/ fetch_full_articles
    \/ write_post
    \/ skip_verify
    \/ verify_post
    \/ rewrite_post
    \/ reverify_post
    \/ loop_exit
    \/ save_draft
    \/ final_check_passes
    \/ post_step
    \/ call_agent_raises
    \/ main_save_results

Spec == Init /\ [][Next]_vars

----------------------------------------------------------------------------
(* The parse alone: the verifier returns any report, step_4_verify_post    *)
(* parses it.                                                              *)

WfIdle ==
    /\ pc = "idle"
    /\ env = [OPENAI_API_KEY |-> TRUE, LINKEDIN_ACCESS_TOKEN |-> FALSE]
    /\ exit_code = -1
    /\ logs_dir = {}
    /\ dry_run = TRUE
    /\ skip_verification = FALSE
    /\ confidence_threshold = 85
    /\ step1_articles = <<>>
    /\ articles_text = None
    /\ all_articles = <<>>
    /\ curated = None
    /\ enhanced_content = None
    /\ draft_post = None
    /\ current_verification = NoVerdict
    /\ retry_count = 0
    /\ results = NewResults(TRUE)
    /\ drafts_dir = {}
    /\ calls = NoCalls
    /\ last_call = NoCall
    /\ verified_draft = None

ParseInit ==
    /\ WfIdle
    /\ ToolIdle
    /\ EntryIdle
    /\ p_src \in Reports
    /\ p_verdict = NoVerdict
    /\ p_claims = <<0, 0>>

\* the verifier returned Render(p_src); step_4_verify_post parses it
verify_report ==
    /\ p_verdict = NoVerdict
    /\ p_verdict' = step_4_verify_post(Render(p_src))
    /\ p_claims' = claim_counts(Render(p_src))
    /\ UNCHANGED <<p_src, wf_vars, m_vars, t_vars, ep_vars>>

ParseNext == verify_report

ParseSpec == ParseInit /\ [][ParseNext]_vars

----------------------------------------------------------------------------
(* The tools alone: one call of one tool on any input.                     *)

ToolInit ==
    /\ WfIdle
    /\ ParseIdle
    /\ EntryIdle
    /\ t_out = None
    /\ \/ t_fn = "step_1_fetch_news" /\ t_in \in FetchInputs
       \/ t_fn = "fetch_multiple_articles" /\ t_in \in ArticleInputs
       \/ t_fn \in {"post_to_linkedin", "validate_linkedin_token"}
          /\ t_in \in LinkedInInputs

\* main.py:52-85 over rss_fetcher.py and gnews_fetcher.py
call_step_1_fetch_news ==
    /\ t_fn = "step_1_fetch_news"
    /\ t_out = None
    /\ LET all == CollectedArticles(t_in.published, t_in.feed_ok, t_in.gnews,
                                    t_in.hours_back)
       IN  t_out' = Some(Returned([all_articles |-> all,
                                   text |-> step_1_fetch_news(all)]))
    /\ UNCHANGED <<t_fn, t_in, wf_vars, m_vars, p_vars, ep_vars>>

call_fetch_multiple_articles ==
    /\ t_fn = "fetch_multiple_articles"
    /\ t_out = None
    /\ t_out' = Some(fetch_multiple_articles(t_in.urls, t_in.pages))
    /\ UNCHANGED <<t_fn, t_in, wf_vars, m_vars, p_vars, ep_vars>>

call_post_to_linkedin ==
    /\ t_fn = "post_to_linkedin"
    /\ t_out = None
    /\ t_out' = Some(post_to_linkedin(t_in.content, t_in.access_token, t_in.linkedin))
    /\ UNCHANGED <<t_fn, t_in, wf_vars, m_vars, p_vars, ep_vars>>

call_validate_linkedin_token ==
    /\ t_fn = "validate_linkedin_token"
    /\ t_out = None
    /\ t_out' = Some(validate_linkedin_token(t_in.access_token, t_in.linkedin))
    /\ UNCHANGED <<t_fn, t_in, wf_vars, m_vars, p_vars, ep_vars>>

ToolNext ==
    \/ call_step_1_fetch_news
    \/ call_fetch_multiple_articles
    \/ call_post_to_linkedin
    \/ call_validate_linkedin_token

ToolSpec == ToolInit /\ [][ToolNext]_vars

-----------------------------------------------------------------------------
(* The tools server: one request to one of the two publishing endpoints.   *)
(* A handler is followed through its calls of the LinkedIn client; each    *)
(* call of the client reads the network anew.                              *)

SrvInit ==
    /\ WfIdle
    /\ ToolIdle
    /\ ParseIdle
    /\ AsstIdle
    /\ srv_pc = "recv"
    /\ srv_env \in [LINKEDIN_ACCESS_TOKEN : BOOLEAN]
    /\ srv_endpoint \in Endpoints
    /\ srv_data \in Bodies
    /\ srv_content = None
    /\ srv_validation = None
    /\ srv_response = None
    /\ srv_calls = NoSrvCalls

\* tools_server.py:141-150
linkedin_post_receive ==
    /\ srv_pc = "recv"
    /\ srv_endpoint = "post_to_linkedin"
    /\ IF MissingContent(srv_data)
       THEN /\ srv_response' = Some(Response(400,
                    [success |-> FALSE, error |-> "Missing 'content' field"]))
            /\ srv_pc' = "responded"
            /\ UNCHANGED srv_content
       ELSE /\ srv_content' = srv_data[1].content
            /\ srv_pc' = "validate"
            /\ UNCHANGED srv_response
    /\ UNCHANGED <<srv_env, srv_endpoint, srv_data, srv_validation,
                   srv_calls, main_vars, asst_vars>>

\* tools_server.py:166-187 and 204-211: gen_response.get_json() raises on
\* the pair generate_post returns from its except branch
full_workflow_generate ==
    /\ srv_pc = "recv"
    /\ srv_endpoint = "full_workflow"
    /\ \E outcome \in GenOutcomes, text \in Texts :
        LET gen_response == generate_post(outcome, text)
            gen_data == gen_response.json
        IN  IF gen_response.tuple
            THEN /\ srv_response' = Some(ErrorResponse)
                 /\ srv_pc' = "responded"
                 /\ UNCHANGED srv_content
            ELSE IF ~gen_data.success
            THEN /\ srv_response' = Some(Response(200, gen_data))
                 /\ srv_pc' = "responded"
                 /\ UNCHANGED srv_content
            ELSE /\ srv_content' = Some(gen_data.post)
                 /\ IF AutoPost(srv_data)
                    THEN /\ srv_pc' = "validate"
                         /\ UNCHANGED srv_response
                    ELSE /\ srv_response' = Some(Response(200,
                                 [success |-> TRUE, post |-> Some(gen_data.post),
                                  message |-> "Post generated. Set auto_post=true to publish."]))
                         /\ srv_pc' = "responded"
    /\ UNCHANGED <<srv_env, srv_endpoint, srv_data, srv_validation,
                   srv_calls, main_vars, asst_vars>>

\* tools_server.py:152-157 and 189-195
srv_validate ==
    /\ srv_pc = "validate"
    /\ \E li \in LinkedInResponses :
        LET v == validate_linkedin_token(srv_env.LINKEDIN_ACCESS_TOKEN, li)
        IN  /\ srv_calls' = [srv_calls EXCEPT !.validate_linkedin_token = @ + 1]
            /\ IF v.raised
               THEN /\ srv_response' = Some(ErrorResponse)
                    /\ srv_pc' = "responded"
                    /\ UNCHANGED srv_validation
               ELSE /\ srv_validation' = Some(v.value)
                    /\ IF ~TokenValid(v.value)
                       THEN /\ srv_response' =
                                   Some(InvalidTokenResponse(srv_endpoint,
                                                             srv_content))
                            /\ srv_pc' = "responded"
                       ELSE /\ srv_pc' = "publish"
                            /\ UNCHANGED srv_response
    /\ UNCHANGED <<srv_env, srv_endpoint, srv_data, srv_content, main_vars,
                   asst_vars>>

\* tools_server.py:159-160 and 197-202
srv_publish ==
    /\ srv_pc = "publish"
    /\ \E li \in LinkedInResponses :
        LET r == post_to_linkedin(srv_content[1], srv_env.LINKEDIN_ACCESS_TOKEN,
                                 li)
        IN  /\ srv_calls' = [srv_calls EXCEPT !.post_to_linkedin = @ + 1]
            /\ srv_response' =
                   IF r.raised THEN Some(ErrorResponse)
                   ELSE Some(PublishResponse(srv_endpoint, srv_content, r.value))
            /\ srv_pc' = "responded"
    /\ UNCHANGED <<srv_env, srv_endpoint, srv_data, srv_content,
                   srv_validation, main_vars, asst_vars>>

SrvNext ==
    \/ linkedin_post_receive
    \/ full_workflow_generate
    \/ srv_validate
    \/ srv_publish

ServerSpec == SrvInit /\ [][SrvNext]_vars

-----------------------------------------------------------------------------
(* deploy_openai.py started with one flag: the polling loop of             *)
(* run_assistant against a remote run whose status and tool calls are      *)
(* whatever the service reports at each poll.                              *)

AsstInit ==
    /\ WfIdle
    /\ ToolIdle
    /\ ParseIdle
    /\ SrvIdle
    /\ asst_pc = "main"
    /\ asst_args \in AsstFlags
    /\ asst_env \in [LINKEDIN_ACCESS_TOKEN : BOOLEAN]
    /\ auto_post = FALSE
    /\ user_message = None
    /\ run = NoRun
    /\ tool_outputs = <<>>
    /\ asst_calls = NoAsstCalls
    /\ asst_result = None

\* deploy_openai.py:308-312 and 324-325
deploy_main ==
    /\ asst_pc = "main"
    /\ IF asst_args = "run"
       THEN auto_post' = FALSE /\ asst_pc' = "start"
       ELSE IF asst_args = "post"
       THEN auto_post' = TRUE /\ asst_pc' = "start"
       ELSE auto_post' = auto_post /\ asst_pc' = "exit"
    /\ UNCHANGED <<asst_args, asst_env, user_message, run, tool_outputs,
                   asst_calls, asst_result, main_vars, srv_vars>>

\* deploy_openai.py:193-217: the thread, its first message and the run
start_run ==
    /\ asst_pc = "start"
    /\ user_message' = Some(UserMessage(auto_post))
    /\ run' = [status |-> "queued", tool_calls |-> <<>>]
    /\ asst_pc' = "poll"
    /\ UNCHANGED <<asst_args, asst_env, auto_post, tool_outputs, asst_calls,
                   asst_result, main_vars, srv_vars>>

\* deploy_openai.py:220-224
retrieve_run ==
    /\ asst_pc = "poll"
    /\ asst_calls.retrieve < MaxPolls
    /\ \E status \in RunStatuses :
        IF status = "requires_action"
        THEN \E tool_calls \in ToolCallLists :
                run' = [status |-> status, tool_calls |-> tool_calls]
        ELSE run' = [status |-> status, tool_calls |-> <<>>]
    /\ asst_calls' = [asst_calls EXCEPT !.retrieve = @ + 1]
    /\ asst_pc' = "status"
    /\ UNCHANGED <<asst_args, asst_env, auto_post, user_message,
                   tool_outputs, asst_result, main_vars, srv_vars>>

\* deploy_openai.py:226-227 and 259-272
run_completed ==
    /\ asst_pc = "status"
    /\ run.status = "completed"
    /\ \E data \in MessageLists :
        asst_result' = Some(Returned(first_assistant_text(data)))
    /\ asst_calls' = [asst_calls EXCEPT !.messages_list = @ + 1]
    /\ asst_pc' = "returned"
    /\ UNCHANGED <<asst_args, asst_env, auto_post, user_message, run,
                   tool_outputs, main_vars, srv_vars>>

\* deploy_openai.py:229-249 and 257: the tool calls are handled in order,
\* their outputs submitted, and the loop sleeps and polls again; an
\* exception of json.loads or of a tool leaves run_assistant
run_requires_action ==
    /\ asst_pc = "status"
    /\ run.status = "requires_action"
    /\ \E li \in LinkedInResponses :
        LET done == handle_tool_calls(run.tool_calls,
                                      asst_env.LINKEDIN_ACCESS_TOKEN, li,
                                      NoOutputs)
        IN  /\ tool_outputs' = done.tool_outputs
            /\ IF done.raised
               THEN /\ asst_pc' = "raised"
                    /\ asst_result' = Some(Raised("exception"))
                    /\ asst_calls' = [asst_calls EXCEPT
                           !.post_to_linkedin = @ + done.post_calls]
                    /\ UNCHANGED run
               ELSE /\ asst_pc' = "poll"
                    /\ run' = [status |-> "queued", tool_calls |-> <<>>]
                    /\ asst_calls' = [asst_calls EXCEPT
                           !.post_to_linkedin = @ + done.post_calls,
                           !.submit_tool_outputs = @ + 1]
                    /\ UNCHANGED asst_result
    /\ UNCHANGED <<asst_args, asst_env, auto_post, user_message, main_vars,
                   srv_vars>>

\* deploy_openai.py:251-255
run_ended ==
    /\ asst_pc = "status"
    /\ run.status \in EndedStatuses
    /\ asst_result' = Some(Returned(None))
    /\ asst_pc' = "returned"
    /\ UNCHANGED <<asst_args, asst_env, auto_post, user_message, run,
                   tool_outputs, asst_calls, main_vars, srv_vars>>

\* deploy_openai.py:257, no branch taken: sleep and poll again
run_pending ==
    /\ asst_pc = "status"
    /\ run.status \in PendingStatuses
    /\ asst_pc' = "poll"
    /\ UNCHANGED <<asst_args, asst_env, auto_post, user_message, run,
                   tool_outputs, asst_calls, asst_result, main_vars,
                   srv_vars>>

AsstNext ==
    \/ deploy_main
    \/ start_run
    \/ retrieve_run
    \/ run_completed
    \/ run_requires_action
    \/ run_ended
    \/ run_pending

AssistantSpec == AsstInit /\ [][AsstNext]_vars

----------------------------------------------------------------------------
(* Properties of the parse *)

Parsed == p_verdict # NoVerdict

\* what the verifier wrote, read off the report's structure
NumVerified(r) == Cardinality({i \in DOMAIN r.claims : r.claims[i]})
NumUnverified(r) == Cardinality({i \in DOMAIN r.claims : ~r.claims[i]})
HasAffirmative(r) ==
    \/ r.overall \in {"passed", "passed_bold"}
    \/ r.rec \in {"publish", "publish_bold", "publish_nl"}
\* the affirmative phrase stands in the text with no markup inside it
PlainAffirmative(r) == r.overall = "passed" \/ r.rec = "publish"
\* the same report with its emphasis markup taken out
Unmarked(r) ==
    [overall |-> IF r.overall = "passed_bold" THEN "passed" ELSE r.overall,
     claims |-> r.claims,
     style |-> "plain",
     rec |-> IF r.rec = "publish_bold" THEN "publish" ELSE r.rec]

\* C5: a report with at least one "status: verified" marker and no
\* "status: unverified" marker parses to passed = TRUE and confidence = 100,
\* whatever its overall status line and recommendation say.
C5_AllVerifiedAccepted ==
    (Parsed /\ NumVerified(p_src) > 0 /\ NumUnverified(p_src) = 0)
        => (p_verdict.passed /\ p_verdict.confidence = 100)

C5_Witness ==
    /\ Parsed
    /\ NumVerified(p_src) = 2 /\ NumUnverified(p_src) = 0
    /\ p_src.style = "bold"
    /\ p_src.overall = "failed" /\ p_src.rec = "revise"
    /\ p_verdict.passed /\ p_verdict.confidence = 100

\* C6 as stated: with at least one claim marker the confidence is
\* 100 * verified / total rounded to the nearest integer (67 for 2 of 3).
C6_ConfidenceRounded ==
    (Parsed /\ Len(p_src.claims) > 0)
        => p_verdict.confidence =
               (200 * NumVerified(p_src) + Len(p_src.claims))
                   \div (2 * Len(p_src.claims))

\* C6 amended: with at least one claim marker the counts are those of the
\* markers and the confidence is 100 * verified / total truncated to an
\* integer; 2 verified, 1 unverified and "Overall Status: FAILED" give
\* confidence 66 and passed = FALSE.
C6_ConfidenceTruncated ==
    (Parsed /\ Len(p_src.claims) > 0)
        => /\ p_claims = <<NumVerified(p_src), NumUnverified(p_src)>>
           /\ p_verdict.confidence =
                  (100 * NumVerified(p_src)) \div Len(p_src.claims)
           /\ (/\ NumVerified(p_src) = 2 /\ NumUnverified(p_src) = 1
               /\ p_src.overall = "failed" /\ p_src.rec = "none")
                  => (p_verdict.confidence = 66 /\ ~p_verdict.passed)

C6_Witness ==
    /\ Parsed
    /\ p_src.claims = <<TRUE, TRUE, FALSE>>
    /\ p_src.overall = "failed" /\ p_src.rec = "none"
    /\ p_claims = <<2, 1>>
    /\ p_verdict.confidence = 66
    /\ ~p_verdict.passed

\* C7: a report whose affirmative phrase is wrapped in emphasis markup gets
\* the same acceptance as the same report without the markup.
C7_MarkupInsensitive ==
    Parsed => p_verdict.passed = step_4_verify_post(Render(Unmarked(p_src))).passed

\* C8: every report is parsed to a verdict with a boolean status and a
\* confidence in 0..100; one without claim markers gets counts 0 and 0,
\* confidence 0, and is rejected unless it has an affirmative phrase.
C8_NoMarkersZero ==
    Parsed =>
        /\ p_verdict.passed \in BOOLEAN
        /\ p_verdict.confidence \in 0..100
        /\ p_verdict.report = Render(p_src)
        /\ p_src.claims = <<>> =>
              /\ p_claims = <<0, 0>>
              /\ p_verdict.confidence = 0
              /\ (~HasAffirmative(p_src) => ~p_verdict.passed)

C8_Witness ==
    /\ Parsed
    /\ p_src.claims = <<>>
    /\ p_src.overall = "failed" /\ p_src.rec = "revise"
    /\ p_verdict.confidence = 0
    /\ ~p_verdict.passed

\* C9: a report with no claim markers and a plain "overall status: passed"
\* or "recommendation: publish" phrase parses to passed = TRUE at confidence
\* 0; confidence 100 is given only with a verified marker and no unverified
\* one.
C9_AcceptedAtZero ==
    Parsed =>
        /\ (p_src.claims = <<>> /\ PlainAffirmative(p_src))
              => (p_verdict.passed /\ p_verdict.confidence = 0)
        /\ p_verdict.confidence = 100
              => (NumVerified(p_src) > 0 /\ NumUnverified(p_src) = 0)

C9_Witness ==
    /\ Parsed
    /\ p_src.claims = <<>>
    /\ p_src.overall = "passed" /\ p_src.rec = "none"
    /\ p_verdict.passed
    /\ p_verdict.confidence = 0

----------------------------------------------------------------------------
(* Properties of run_workflow *)

Accepted(v) == v.passed /\ v.confidence = 100
\* run_workflow has returned its result to main
Returns == pc \in {"done", "saved"}
Min(a, b) == IF a < b THEN a ELSE b

\* the verdicts the run has received, in order: results.steps.verify,
\* verify_1, verify_2, ...
HasVerdict(k) == VerifyKey(k) \in DOMAIN results.steps
VerdictAt(k) == results.steps[VerifyKey(k)]

\* the number of consecutive non-accepted verdicts from the first one on
ObservedN ==
    Cardinality({k \in 0..(max_retries + 1) :
        \A j \in 0..k : HasVerdict(j) /\ ~Accepted(VerdictAt(j))})

\* a measure every step of the loop decreases
LoopMeasure ==
    2 * (max_retries - retry_count) + (IF pc = "reverify" THEN 1 ELSE 0)

\* C1: with verification on, the publish step is reached only when the
\* latest verdict has passed = TRUE and confidence = 100; while the latest
\* verdict is below 100 no publish step has run or is about to.
C1_PublishOnlyAt100 ==
    ~skip_verification =>
        /\ (pc = "post" \/ calls.step_5 > 0) => Accepted(current_verification)
        /\ current_verification.confidence < 100 =>
              (pc # "post" /\ calls.step_5 = 0 /\ calls.post_to_linkedin = 0)

C1_Witness ==
    /\ ~skip_verification
    /\ Returns
    /\ calls.step_5 = 1
    /\ calls.rewrite = 2
    /\ Accepted(current_verification)

\* C2: the loop makes at most 3 rewrite calls and at most 4 verification
\* calls, every step of it decreases a measure that stays at or above 0,
\* and it ends accepted (confidence 100) or exhausted (3 retries used).
C2_LoopBounded ==
    /\ [](/\ calls.rewrite <= 3
          /\ calls.verify <= 4
          /\ pc \in {"loop", "reverify"} => LoopMeasure >= 0
          /\ pc = "final" =>
                \/ Accepted(current_verification)
                \/ /\ ~Accepted(current_verification)
                   /\ retry_count = 3
                   /\ calls.rewrite = 3
                   /\ calls.verify = 4)
    /\ [][(pc \in {"loop", "reverify"} /\ pc' \in {"loop", "reverify"})
             => LoopMeasure' < LoopMeasure]_vars

C2_Witness ==
    /\ pc = "final"
    /\ ~Accepted(current_verification)
    /\ current_verification.passed
    /\ calls.rewrite = 3
    /\ calls.verify = 4

\* C3: when the loop has ended the number of rewrite calls is
\* min(N, max_retries), N the number of consecutive non-accepted verdicts
\* from the first; a first verdict below 100 followed by one at 100 gives
\* one rewrite, two verifications and retry_count = 1.
C3_RewriteCount ==
    pc = "final" =>
        /\ calls.rewrite = Min(ObservedN, 3)
        /\ retry_count = calls.rewrite
        /\ (/\ VerdictAt(0).confidence < 100
            /\ HasVerdict(1)
            /\ VerdictAt(1).confidence = 100)
              => (calls.rewrite = 1 /\ calls.verify = 2 /\ retry_count = 1)

C3_Witness ==
    /\ pc = "final"
    /\ VerdictAt(0).confidence = 50
    /\ HasVerdict(1)
    /\ VerdictAt(1).confidence = 100
    /\ calls.rewrite = 1
    /\ calls.verify = 2
    /\ retry_count = 1

\* C4: a run that has returned after the loop ended exhausted has written
\* the review file with the current draft and the last report, has status
\* draft_saved and a final_confidence below 100, and made no publish call.
C4_ExhaustedSavesDraft ==
    (/\ Returns
     /\ ~skip_verification
     /\ calls.verify > 0
     /\ ~Accepted(current_verification))
        => /\ calls.rewrite = 3
           /\ calls.verify = 4
           /\ results.status = "draft_saved"
           /\ results.final_confidence = current_verification.confidence
           /\ results.final_confidence < 100
           /\ \E f \in drafts_dir :
                 /\ f.name = results.draft_file
                 /\ f.draft = draft_post[1]
                 /\ f.report = current_verification.report
                 /\ f.report = VerdictAt(3).report
           /\ calls.step_5 = 0
           /\ calls.post_to_linkedin = 0
           /\ "post" \notin DOMAIN results.steps

C4_Witness ==
    /\ Returns
    /\ results.status = "draft_saved"
    /\ calls.rewrite = 3
    /\ calls.verify = 4
    /\ results.final_confidence = 50
    /\ drafts_dir # {}
    /\ calls.post_to_linkedin = 0

\* C10: when the collectors of step 1 return no item the run returns with
\* status skipped, without any curate, write, verify, rewrite or publish
\* call and without a review file.
C10_NoArticlesSkipped ==
    (calls.fetch > 0 /\ step1_articles = <<>>)
        => /\ Returns
           /\ results.status = "skipped"
           /\ calls.curate = 0
           /\ calls.write = 0
           /\ calls.verify = 0
           /\ calls.rewrite = 0
           /\ calls.step_5 = 0
           /\ calls.post_to_linkedin = 0
           /\ calls.review_files = 0
           /\ drafts_dir = {}

C10_Witness ==
    /\ Returns
    /\ step1_articles = <<>>
    /\ calls.fetch = 1
    /\ results.status = "skipped"
    /\ results.reason = "No articles found"

----------------------------------------------------------------------------
(* Properties of main and of the publish step *)

\* C11: in live mode every call of post_to_linkedin made by the workflow
\* comes after a call of validate_linkedin_token, and no call of
\* post_to_linkedin is made with a token the profile lookup rejects.
C11_ValidatedBeforePublish ==
    /\ calls.post_to_linkedin > 0 => calls.validate_linkedin_token > 0
    /\ (/\ "post" \in DOMAIN results.steps
        /\ ~results.steps["post"].success
        /\ results.steps["post"].error = "Failed to fetch user profile")
          => calls.post_to_linkedin = 0

\* C12: once main has tested the environment with OPENAI_API_KEY absent, or
\* with LINKEDIN_ACCESS_TOKEN absent in live mode, the process has exited
\* with status 1; no step of the workflow has run, nothing was written, and
\* the mode is the one that was asked for.
C12_MissingCredentialExits ==
    (/\ pc # "main"
     /\ \/ ~env.OPENAI_API_KEY
        \/ ~dry_run /\ ~env.LINKEDIN_ACCESS_TOKEN)
        => /\ pc = "exit"
           /\ exit_code = 1
           /\ calls = NoCalls
           /\ results = NewResults(dry_run)
           /\ drafts_dir = {}
           /\ logs_dir = {}

C12_Witness ==
    /\ pc = "exit"
    /\ exit_code = 1
    /\ ~dry_run
    /\ env.OPENAI_API_KEY
    /\ ~env.LINKEDIN_ACCESS_TOKEN

\* C13: once a generative call has raised, the run is aborted: it was the
\* only failure, the process has ended with status 1 and no result, no
\* review file, publish step, publish call or run summary exists; and no
\* step changes the calls, the files or the result afterwards.
C13_GenerativeFailureAborts ==
    /\ [](calls.failed > 0 =>
            /\ pc = "raised"
            /\ calls.failed = 1
            /\ exit_code = 1
            /\ results.status = ""
            /\ calls.review_files = 0
            /\ drafts_dir = {}
            /\ calls.step_5 = 0
            /\ calls.post_to_linkedin = 0
            /\ logs_dir = {})
    /\ [][calls.failed > 0 =>
            UNCHANGED <<calls, retry_count, drafts_dir, logs_dir, results>>]_vars

\* the second rewrite call raises
C13_Witness ==
    /\ pc = "raised"
    /\ calls.failed = 1
    /\ calls.rewrite = 2
    /\ calls.verify = 2
    /\ retry_count = 2

TerminalStatuses == {"success", "failed", "skipped", "draft_saved"}

C20_DryRunNeverPosts ==
    dry_run =>
        /\ calls.post_to_linkedin = 0
        /\ calls.step_5 > 0 =>
              /\ Returns
              /\ results.steps["post"] = [success |-> TRUE, dry_run |-> TRUE]
              /\ results.status = "success"

C20_Witness ==
    /\ dry_run
    /\ Returns
    /\ calls.step_5 = 1
    /\ calls.post_to_linkedin = 0
    /\ env.LINKEDIN_ACCESS_TOKEN
    /\ results.steps["post"] = [success |-> TRUE, dry_run |-> TRUE]
    /\ results.status = "success"

----------------------------------------------------------------------------
(* Properties of the tools *)

ToolDone(fn) == t_fn = fn /\ t_out # None
ToolResult == t_out[1]
\* the combined list of step 1
Combined == ToolResult.value.all_articles
InWindow(s, hours_back) == SelectSeq(s, LAMBDA it : it.age <= hours_back)

\* C16: the combined list of step 1 holds no two items with the same URL.
C16_NoDuplicateUrls ==
    ToolDone("step_1_fetch_news") =>
        \A i, j \in DOMAIN Combined : i # j => Combined[i].url # Combined[j].url

\* C17: the combined list of step 1 is ordered newest first and every item
\* of it, whatever its source, was published within the last hours_back
\* hours.
C17_NewestFirstInWindow ==
    ToolDone("step_1_fetch_news") =>
        /\ \A i, j \in DOMAIN Combined :
              i < j => Combined[i].age <= Combined[j].age
        /\ \A i \in DOMAIN Combined : Combined[i].age <= t_in.hours_back

\* C18: step 1 and fetch_multiple_articles return whatever retrieval fails.
\* A feed whose retrieval fails gives no item and so does a failing news
\* API request, while every feed that answers gives all its items of the
\* window and an answering news API gives an item for each URL it lists.
\* fetch_multiple_articles gives one block per URL, in order, and the block
\* of a page that could not be fetched or parsed holds the sentinel content
\* that tells the failure.
C18_RetrievalFailureContained ==
    /\ ToolDone("step_1_fetch_news") =>
        /\ ~ToolResult.raised
        /\ \A f \in Range(RSS_FEEDS) :
              IF t_in.feed_ok[f]
              THEN Len(OfSource(Combined, f))
                      = Len(InWindow(OfSource(t_in.published, f), t_in.hours_back))
              ELSE OfSource(Combined, f) = <<>>
        /\ IF t_in.gnews = "ok"
           THEN {it.url : it \in Range(OfSource(Combined, GnewsSource))}
                   = {it.url : it \in Range(OfSource(t_in.published, GnewsSource))}
           ELSE OfSource(Combined, GnewsSource) = <<>>
    /\ ToolDone("fetch_multiple_articles") =>
        /\ ~ToolResult.raised
        /\ Len(ToolResult.value) = Len(t_in.urls)
        /\ \A i \in DOMAIN t_in.urls :
              /\ ToolResult.value[i].url = t_in.urls[i]
              /\ ToolResult.value[i].content =
                    CASE t_in.pages[t_in.urls[i]] = "ok" -> "paragraphs"
                      [] t_in.pages[t_in.urls[i]] = "no_article" ->
                            "Failed to extract article content"
                      [] t_in.pages[t_in.urls[i]] = "request_error" ->
                            "Could not fetch article: error"
                      [] t_in.pages[t_in.urls[i]] = "parse_error" ->
                            "Could not parse article: error"

\* the first page cannot be parsed, the second is fetched
C18_Witness ==
    /\ ToolDone("fetch_multiple_articles")
    /\ t_in.urls = <<"u1", "u2">>
    /\ t_in.pages["u1"] = "parse_error"
    /\ t_in.pages["u2"] = "ok"
    /\ ~ToolResult.raised
    /\ ToolResult.value[1].title = "Parse error"
    /\ ToolResult.value[1].content = "Could not parse article: error"
    /\ ToolResult.value[2].content = "paragraphs"

\* C19: post_to_linkedin never raises. With no token, a failing or empty
\* profile lookup, a profile without user id, a response other than 201 or
\* a transport error of the POST it returns success = FALSE with the error
\* message of that failure, for which run_workflow sets status failed;
\* otherwise it returns success = TRUE.
C19_PublishFailureReturned ==
    ToolDone("post_to_linkedin") =>
        /\ ~ToolResult.raised
        /\ LET li == t_in.linkedin
               error ==
                   IF ~t_in.access_token THEN "LINKEDIN_ACCESS_TOKEN not set"
                   ELSE IF li.profile \in {"error", "empty"}
                   THEN "Failed to fetch user profile"
                   ELSE IF li.profile = "no_sub"
                   THEN "Could not get user ID from profile"
                   ELSE IF li.post = "other" THEN "HTTP status and body"
                   ELSE IF li.post = "error" THEN "RequestException"
                   ELSE ""
           IN  IF error = ""
               THEN ToolResult.value.success
               ELSE /\ ~ToolResult.value.success
                    /\ ToolResult.value.error = error
                    /\ RunStatus(ToolResult.value) = "failed"

\* the POST fails in transport
C19_Witness ==
    /\ ToolDone("post_to_linkedin")
    /\ t_in.access_token
    /\ t_in.linkedin = [profile |-> "ok", post |-> "error"]
    /\ ~ToolResult.raised
    /\ ~ToolResult.value.success
    /\ ToolResult.value.error = "RequestException"

----------------------------------------------------------------------------
(* Properties of the arguments the steps of run_workflow receive *)

\* C21: a run with verification that has returned went through the publish
\* step exactly when the confidence of its final verdict is at or above
\* confidence_threshold.
C21_ThresholdDecides ==
    (Returns /\ ~skip_verification /\ calls.verify > 0) =>
        (calls.step_5 > 0 <=>
            current_verification.confidence >= confidence_threshold)

\* C22: a rewrite call is given the current draft, the report of the
\* latest verdict, which is the verdict of the latest verification and was
\* made on that draft, and the enhanced content; the text it returns is
\* the new draft. Every verification and rewrite call is given the
\* enhanced content, which never changes once step 2b has set it.
C22_RewriteInputs ==
    /\ [][calls'.rewrite = calls.rewrite + 1 =>
            /\ last_call'.fn = "rewrite"
            /\ last_call'.draft = draft_post
            /\ verified_draft = draft_post
            /\ last_call'.report = Some(current_verification.report)
            /\ current_verification = VerdictAt(retry_count)
            /\ last_call'.source = enhanced_content
            /\ pc' = "reverify" => draft_post' = last_call'.result]_vars
    /\ [](last_call.fn \in {"verify", "rewrite"} =>
            (enhanced_content # None /\ last_call.source = enhanced_content))
    /\ [][enhanced_content # None => enhanced_content' = enhanced_content]_vars

\* the second rewrite returned a text other than the draft it was given
C22_Witness ==
    /\ pc = "reverify"
    /\ calls.rewrite = 2
    /\ last_call.fn = "rewrite"
    /\ last_call.source = enhanced_content
    /\ last_call.report = Some(current_verification.report)
    /\ last_call.result = draft_post
    /\ last_call.draft # draft_post

\* C24: with verification on, the publish step is given the draft the
\* latest verification examined, and that verification accepted it; the
\* review file of an exhausted run holds the draft the latest verification
\* examined and the report of that verification; from the end of the loop
\* on, the latest step call is no rewrite and every rewrite has been
\* followed by a verification.
C24_FinalDraftIsVerified ==
    (/\ ~skip_verification
     /\ calls.write > 0
     /\ pc \in {"final", "post", "done", "saved"}) =>
        /\ calls.verify = calls.rewrite + 1
        /\ last_call.fn # "rewrite"
        /\ verified_draft = draft_post
        /\ current_verification = VerdictAt(calls.verify - 1)
        /\ calls.step_5 > 0 =>
              /\ last_call.fn = "post"
              /\ last_call.draft = verified_draft
              /\ Accepted(current_verification)
        /\ results.status = "draft_saved" =>
              \E f \in drafts_dir :
                  /\ drafts_dir = {f}
                  /\ Some(f.draft) = verified_draft
                  /\ f.report = current_verification.report

\* published after one rewrite that changed the draft
C24_Witness ==
    /\ ~skip_verification
    /\ Returns
    /\ calls.rewrite = 1
    /\ calls.step_5 = 1
    /\ last_call.fn = "post"
    /\ last_call.draft = verified_draft
    /\ last_call.draft # Some(results.steps["write"].draft)

\* C25: with skip_verification set no verification and no rewrite call is
\* made, no review file is written and the status is never draft_saved,
\* and the publish step is given the text the writer returned.
C25_SkipVerification ==
    skip_verification =>
        /\ calls.verify = 0
        /\ calls.rewrite = 0
        /\ verified_draft = None
        /\ results.status # "draft_saved"
        /\ drafts_dir = {}
        /\ calls.step_5 > 0 =>
              /\ last_call.fn = "post"
              /\ last_call.draft = Some(results.steps["write"].draft)
              /\ results.steps["verify"] = [skipped |-> TRUE]

C25_Witness ==
    /\ skip_verification
    /\ Returns
    /\ calls.step_5 = 1
    /\ calls.verify = 0
    /\ last_call.draft = Some(results.steps["write"].draft)
    /\ results.status = "success"

\* C26: a run makes at most one publish step and at most one call of
\* post_to_linkedin, and none when it ends skipped or draft_saved or in
\* dry-run mode; after a publish failure the run has returned.
C26_AtMostOnePublish ==
    /\ calls.step_5 <= 1
    /\ calls.post_to_linkedin <= 1
    /\ calls.post_to_linkedin <= calls.step_5
    /\ results.status \in {"skipped", "draft_saved"} => calls.post_to_linkedin = 0
    /\ results.status = "failed" => (Returns /\ calls.post_to_linkedin = 1)

\* a live run whose post is refused after two rewrites
C26_Witness ==
    /\ Returns
    /\ ~dry_run
    /\ calls.rewrite = 2
    /\ calls.post_to_linkedin = 1
    /\ results.status = "failed"
    /\ results.steps["post"].error = "HTTP status and body"

\* C27: once the list of articles has been fetched again for step 2b, it
\* is the list step 1 formatted for the curator.
C27_SameArticleList ==
    calls.fetch = 2 =>
        /\ all_articles = step1_articles
        /\ results.steps["fetch"].articles_found = Len(step1_articles)

-----------------------------------------------------------------------------
(* Properties of the verdict and the exits of the loop that test it *)

\* C23: every verdict step_4_verify_post produces has an integer confidence
\* in [0,100]; the confidence is 100 exactly when the count of unverified
\* claims is 0 and the count of verified claims is positive; a confidence of
\* 100 implies passed.  Hence the exits of the loop of run_workflow that test
\* the confidence alone (the break, the final check) and the while condition
\* agree with the acceptance predicate passed and confidence = 100.
C23_FullConfidenceIsAcceptance ==
    Parsed =>
        /\ p_verdict.confidence \in 0..100
        /\ p_verdict.confidence = 100 <=> (p_claims[2] = 0 /\ p_claims[1] > 0)
        /\ p_verdict.confidence = 100 => p_verdict.passed
        /\ BreakCond(p_verdict) <=> Accepted(p_verdict)
        /\ NeedsReview(p_verdict) <=> ~Accepted(p_verdict)
        /\ \A rc \in 0..(max_retries - 1) :
              LoopCond(p_verdict, rc) <=> ~Accepted(p_verdict)

\* a report with every claim verified and no affirmative phrase has been
\* parsed: only the override makes its verdict passed
C23_Witness ==
    /\ Parsed
    /\ p_claims[1] > 0
    /\ p_claims[2] = 0
    /\ ~PassedSignal(str_lower(Render(p_src)))
    /\ p_verdict.confidence = 100
    /\ BreakCond(p_verdict)

-----------------------------------------------------------------------------
(* Properties of the tools server *)

SrvResponded == srv_pc = "responded"

\* C28: both publishing endpoints of the tools server validate the
\* credential before they publish: post_to_linkedin is called only after
\* one validation of this request that reported valid; when the validation
\* reports valid = false no call of post_to_linkedin is made and the
\* response has success = false; /tools/full_workflow makes no publish call
\* when auto_post is false or when the generation of the post did not
\* succeed.
C28_ValidatedBeforePublish ==
    /\ [][srv_calls'.post_to_linkedin # srv_calls.post_to_linkedin =>
            /\ srv_calls.validate_linkedin_token = 1
            /\ srv_calls.post_to_linkedin = 0
            /\ srv_validation # None
            /\ srv_validation[1].valid]_vars
    /\ []((SrvResponded /\ srv_validation # None
                        /\ ~srv_validation[1].valid) =>
            /\ srv_calls.post_to_linkedin = 0
            /\ ~srv_response[1].body.success)
    /\ []((srv_endpoint = "full_workflow"
            /\ (~AutoPost(srv_data) \/ srv_content = None)) =>
            srv_calls.post_to_linkedin = 0)

\* /tools/full_workflow with auto_post has generated a post, found the
\* token invalid and answered without publishing
C28_Witness ==
    /\ SrvResponded
    /\ srv_endpoint = "full_workflow"
    /\ AutoPost(srv_data)
    /\ srv_content # None
    /\ srv_env.LINKEDIN_ACCESS_TOKEN
    /\ srv_calls.validate_linkedin_token = 1
    /\ srv_validation # None
    /\ ~srv_validation[1].valid
    /\ srv_calls.post_to_linkedin = 0
    /\ ~srv_response[1].body.success

-----------------------------------------------------------------------------
(* Properties of run_assistant *)

\* C29: when run_assistant is invoked with auto_post = false (the --run
\* mode, which only generates a draft), no call of post_to_linkedin is made
\* during the run, whatever tool calls the assistant requests.
C29_DraftModeNeverPosts ==
    (asst_args = "run" /\ ~auto_post) => asst_calls.post_to_linkedin = 0

\* C30: the polling loop of run_assistant returns None without reading the
\* messages when the run is failed, cancelled or expired, and for each
\* requires_action state it submits exactly one output per requested tool
\* call (an error value for an unknown tool name) before it polls again;
\* it does not leave the loop in another way.
C30_PollAnswersEveryToolCall ==
    /\ []((asst_pc = "returned" /\ run.status \in EndedStatuses) =>
            /\ asst_result = Some(Returned(None))
            /\ asst_calls.messages_list = 0)
    /\ [][(asst_pc = "status" /\ run.status = "requires_action") =>
            /\ asst_calls'.submit_tool_outputs =
                   asst_calls.submit_tool_outputs + 1
            /\ Len(tool_outputs') = Len(run.tool_calls)
            /\ \A i \in DOMAIN run.tool_calls :
                  /\ tool_outputs'[i].tool_call_id = i
                  /\ run.tool_calls[i].name = "unknown" =>
                        tool_outputs'[i].output = [error |-> "Unknown tool"]
            /\ asst_pc' = "poll"]_vars

====
